---- MODULE Spec2Model ----
(***************************************************************************)
(* Model of the shopnest backend: StatisticsService (per-store summary and *)
(* trends computed from orders, products, categories, reviews and users)   *)
(* and CategoryService (category CRUD), both over one relational store     *)
(* reached through Prisma.                                                  *)
(*                                                                         *)
(* The database tables are the state.  Tables are sequences (the order in  *)
(* which findMany returns the rows) or, for categories, a function from    *)
(* the primary key to the row.  Every service method is one action that    *)
(* leaves its response in `resp`; the actions that only change the data    *)
(* reset `resp`, so that a response is always read against the snapshot it *)
(* was computed from.                                                      *)
(***************************************************************************)
EXTENDS Integers, Sequences, FiniteSets, TLC

VARIABLES
  now,         \* the clock, in ticks (TicksPerDay ticks a day)
  users,       \* user table, in registration order: [id, createdAt]
  orders,      \* order table: [userId, createdAt, items], items: [storeId, price, quantity]
  products,    \* product table: [storeId]
  reviews,     \* review table: [storeId, rating]
  categories,  \* category table: id -> [id, name, slug, storeId]
  nextId,      \* the next primary key the store hands out for a category
  created,     \* history: id -> the arguments of the create(storeId, dto) that made it
  deleted,     \* history: the ids removed by a successful delete
  resp,        \* the response of the last service call
  req          \* the concurrent requests in flight (update / delete), by request

vars == <<now, users, orders, products, reviews, categories, nextId,
          created, deleted, resp, req>>

----------------------------------------------------------------------------
(* Bounds of the model *)

MaxOrders == 2
MaxItems == 2
MaxRows == 1
MaxReviews == 2
MaxUsers == 6
MaxDay == 31
TicksPerDay == 2
MaxIds == 3

(* Program constants *)

WindowDays == 30
TakeUsers == 5

StoreIds == {"s1", "s2"}
\* the store ids a request may carry: the stores of the data and one that
\* matches no record
QueryIds == StoreIds \cup {"s0"}

\* the order items customers can put in an order
Catalogue ==
  { [storeId |-> "s1", price |-> 10, quantity |-> 2],
    [storeId |-> "s2", price |-> 5,  quantity |-> 1],
    [storeId |-> "s1", price |-> 3,  quantity |-> 1] }

SeqsUpTo(S, n) == UNION { [1..k -> S] : k \in 1..n }

ItemLists == SeqsUpTo(Catalogue, MaxItems)

Ratings == {2, 5}

NoResp == [op |-> "none"]

----------------------------------------------------------------------------
(* Array helpers: Array.prototype.reduce as the code uses it; a where
   clause is SelectSeq over the table *)

RECURSIVE SumSeq(_)
SumSeq(s) == IF s = <<>> THEN 0 ELSE Head(s) + SumSeq(Tail(s))

\* items: { some: { storeId } }
HasStoreItem(order, storeId) ==
  \E i \in 1..Len(order.items) : order.items[i].storeId = storeId

\* include: { items: { where: { storeId } } }
ItemsOfStore(order, storeId) ==
  LET Keep(item) == item.storeId = storeId IN SelectSeq(order.items, Keep)

----------------------------------------------------------------------------
(* StatisticsService.getMainStatistics *)

\* a faulty variant: the include keeps every item of a matching order
RevenueItemsAll(order, storeId) == order.items

\* calculateTotalRevenue's include: the items of an order that are summed
RevenueItems(order, storeId) == ItemsOfStore(order, storeId)

calculateTotalRevenue(storeId) ==
  LET Match(order) == HasStoreItem(order, storeId)
      found == SelectSeq(orders, Match)
      total(order) ==
        LET its == RevenueItems(order, storeId)
        IN SumSeq([i \in 1..Len(its) |-> its[i].price * its[i].quantity])
  IN SumSeq([k \in 1..Len(found) |-> total(found[k])])

countProducts(storeId) ==
  Cardinality({i \in 1..Len(products) : products[i].storeId = storeId})

countCategories(storeId) ==
  Cardinality({id \in DOMAIN categories : categories[id].storeId = storeId})

\* A rating average is the fraction num/den; null is Prisma's _avg of no rows.
NullAvg == [null |-> TRUE, num |-> 0, den |-> 1]
ZeroAvg == [null |-> FALSE, num |-> 0, den |-> 1]

calculateAverageRating(storeId) ==
  LET Keep(r) == r.storeId = storeId
      rows == SelectSeq(reviews, Keep)
  IN IF rows = <<>> THEN NullAvg
     ELSE [null |-> FALSE,
           num |-> SumSeq([i \in 1..Len(rows) |-> rows[i].rating]),
           den |-> Len(rows)]

\* a faulty variant: the value is passed on as the aggregate gave it
OrZeroMissing(avg) == avg

\* averageRating || 0: null and 0 are falsy
OrZero(avg) == IF avg.null \/ avg.num = 0 THEN ZeroAvg ELSE avg

getMainStatistics(storeId) ==
  << [id |-> 1, name |-> "Revenue", value |-> calculateTotalRevenue(storeId)],
     [id |-> 2, name |-> "Products", value |-> countProducts(storeId)],
     [id |-> 3, name |-> "Categories", value |-> countCategories(storeId)],
     [id |-> 4, name |-> "Average rating",
      value |-> OrZero(calculateAverageRating(storeId))] >>

----------------------------------------------------------------------------
(* The calendar: a tick is a point in time, a day is TicksPerDay ticks, and
   day 0 is 1 January of a common year. *)

monthNames ==
  <<"jan", "feb", "mar", "apr", "may", "jun",
    "jul", "aug", "sep", "oct", "nov", "dec">>

DaysInMonth == <<31, 28, 31, 30, 31, 30, 31, 31, 30, 31, 30, 31>>

DayOf(ts) == ts \div TicksPerDay

\* Date.getDate() and Date.getMonth() of a day number
RECURSIVE DateFrom(_, _)
DateFrom(d, m) ==
  IF d < DaysInMonth[m + 1] THEN [date |-> d + 1, month |-> m]
  ELSE DateFrom(d - DaysInMonth[m + 1], (m + 1) % 12)

DateOf(day) == DateFrom(day, 0)

\* dayjs().startOf('day'), dayjs().endOf('day'), dayjs().subtract(n, 'days')
StartOfDay(ts) == DayOf(ts) * TicksPerDay
EndOfDay(ts) == DayOf(ts) * TicksPerDay + (TicksPerDay - 1)
SubtractDays(ts, n) == ts - n * TicksPerDay

\* `${date.getDate()} ${monthNames[date.getMonth()]}`
formatDate(ts) ==
  LET d == DateOf(DayOf(ts))
  IN ToString(d.date) \o " " \o monthNames[d.month + 1]

----------------------------------------------------------------------------
(* StatisticsService.getMiddleStatistics: calculateMonthlySales *)

\* a faulty variant: the window starts 30 days before the current instant
startDateNoStartOfDay == SubtractDays(now, WindowDays)

startDate == StartOfDay(SubtractDays(now, WindowDays))
endDate == EndOfDay(now)

\* where: createdAt in [startDate, endDate], items: { some: { storeId } }
salesRaw(storeId) ==
  LET Match(order) ==
        /\ order.createdAt >= startDate
        /\ order.createdAt <= endDate
        /\ HasStoreItem(order, storeId)
  IN SelectSeq(orders, Match)

\* include: { items: true }
SalesItems(order, storeId) == order.items

SalesTotal(order, storeId) ==
  LET its == SalesItems(order, storeId)
  IN SumSeq([i \in 1..Len(its) |-> its[i].price * its[i].quantity])

\* salesByDate: a Map keeps its keys in insertion order
RECURSIVE GroupByDate(_, _, _)
GroupByDate(raw, storeId, salesByDate) ==
  IF raw = <<>> THEN salesByDate
  ELSE
    LET order == Head(raw)
        formattedDate == formatDate(order.createdAt)
        total == SalesTotal(order, storeId)
        has == \E i \in 1..Len(salesByDate) : salesByDate[i].date = formattedDate
        next ==
          IF has
          THEN [i \in 1..Len(salesByDate) |->
                  IF salesByDate[i].date = formattedDate
                  THEN [date |-> formattedDate, value |-> salesByDate[i].value + total]
                  ELSE salesByDate[i]]
          ELSE Append(salesByDate, [date |-> formattedDate, value |-> total])
    IN GroupByDate(Tail(raw), storeId, next)

calculateMonthlySales(storeId) == GroupByDate(salesRaw(storeId), storeId, <<>>)

----------------------------------------------------------------------------
(* StatisticsService.getMiddleStatistics: getLastUsers *)

OrdersOfUser(user) ==
  LET Mine(order) == order.userId = user.id IN SelectSeq(orders, Mine)

\* a faulty variant: the user filter asks for any order at all
UserWhereAnyOrder(user, storeId) == OrdersOfUser(user) # <<>>

\* where: { orders: { some: { items: { some: { storeId } } } } }
UserWhere(user, storeId) ==
  LET mine == OrdersOfUser(user)
  IN \E k \in 1..Len(mine) : HasStoreItem(mine[k], storeId)

\* orderBy: { createdAt: 'desc' }
RECURSIVE InsertDesc(_, _)
InsertDesc(sorted, user) ==
  IF sorted = <<>> THEN <<user>>
  ELSE IF Head(sorted).createdAt >= user.createdAt
       THEN <<Head(sorted)>> \o InsertDesc(Tail(sorted), user)
       ELSE <<user>> \o sorted

RECURSIVE OrderByCreatedAtDesc(_)
OrderByCreatedAtDesc(rows) ==
  IF rows = <<>> THEN <<>>
  ELSE InsertDesc(OrderByCreatedAtDesc(Tail(rows)), Head(rows))

\* take: 5
Take(rows, n) == SubSeq(rows, 1, IF Len(rows) < n THEN Len(rows) ELSE n)

\* include: { orders: { where: { items: { some: { storeId } } },
\*                      include: { items: { where: { storeId }, select: { price } } } } }
IncludedOrders(user, storeId) ==
  LET Match(order) == HasStoreItem(order, storeId)
      found == SelectSeq(OrdersOfUser(user), Match)
      Sel(order) ==
        LET its == ItemsOfStore(order, storeId)
        IN [items |-> [i \in 1..Len(its) |-> [price |-> its[i].price]]]
  IN [k \in 1..Len(found) |-> Sel(found[k])]

lastUsersQuery(storeId) ==
  LET Match(user) == UserWhere(user, storeId)
      rows == Take(OrderByCreatedAtDesc(SelectSeq(users, Match)), TakeUsers)
  IN [k \in 1..Len(rows) |->
        [id |-> rows[k].id, orders |-> IncludedOrders(rows[k], storeId)]]

\* user.orders[user.orders.length - 1] of an empty array is undefined, and
\* reading .items of it throws a TypeError
LastUsersThrows(storeId) ==
  LET rows == lastUsersQuery(storeId)
  IN \E k \in 1..Len(rows) : rows[k].orders = <<>>

getLastUsers(storeId) ==
  LET rows == lastUsersQuery(storeId)
      Row(user) ==
        LET lastOrder == user.orders[Len(user.orders)]
            total == SumSeq([i \in 1..Len(lastOrder.items) |-> lastOrder.items[i].price])
        IN [id |-> user.id, total |-> total]
  IN [k \in 1..Len(rows) |-> Row(rows[k])]

getMiddleStatistics(storeId) ==
  IF LastUsersThrows(storeId)
  THEN [error |-> "TypeError", monthlySales |-> <<>>, lastUsers |-> <<>>]
  ELSE [error |-> "none",
        monthlySales |-> calculateMonthlySales(storeId),
        lastUsers |-> getLastUsers(storeId)]

----------------------------------------------------------------------------
(* CategoryService *)

\* CategoryDto: name and slug; the object a caller hands over may carry more
\* than the declared fields, such as a storeId of its own
Dtos ==
  { [name |-> "a", slug |-> "a"],
    [name |-> "b", slug |-> "b", storeId |-> "s2"] }

Ids == 1..MaxIds

NoRow == [none |-> TRUE]

\* { ...base, ...over }: the later spread wins
Merge(base, over) ==
  [f \in DOMAIN base \cup DOMAIN over |->
     IF f \in DOMAIN over THEN over[f] ELSE base[f]]

getManyByStoreId(storeId) ==
  {categories[id] : id \in {i \in DOMAIN categories : categories[i].storeId = storeId}}

\* a faulty variant: the lookup's null is returned instead of thrown on
getByIdNoThrow(id) ==
  [error |-> "none",
   result |-> IF id \in DOMAIN categories THEN categories[id] ELSE NoRow]

\* findUnique, then NotFoundException when there is no row
getById(id) ==
  IF id \in DOMAIN categories
  THEN [error |-> "none", result |-> categories[id]]
  ELSE [error |-> "NotFound", result |-> NoRow]

\* a faulty variant: { storeId, ...dto }, a storeId of the dto wins
createDataDtoWins(storeId, dto) == Merge([storeId |-> storeId], dto)

\* data: { ...dto, storeId }
createData(storeId, dto) == Merge(dto, [storeId |-> storeId])

\* a faulty variant: deleting a row that is not there succeeds silently
mutationErrorSilent(id) == "none"

\* prisma.category.update / delete on a row that is not there rejects with
\* Prisma's own record-not-found error, which is no NotFoundException
mutationError(id) ==
  IF id \in DOMAIN categories THEN "none" ELSE "RecordNotFound"

Without(f, id) == [i \in DOMAIN f \ {id} |-> f[i]]

----------------------------------------------------------------------------
(* The data changing under the services: customers register, order and
   review, the seller adds products, time passes. *)

UNCHANGED_categoryTable == UNCHANGED <<categories, nextId, created, deleted>>

PlaceOrder(userId, items) ==
  /\ Len(orders) < MaxOrders
  /\ orders' = Append(orders, [userId |-> userId, createdAt |-> now, items |-> items])
  /\ resp' = NoResp
  /\ UNCHANGED <<now, users, products, reviews, req>>
  /\ UNCHANGED_categoryTable

\* an order of one item, for the summary
PlaceSmallOrder(userId, item) ==
  /\ Len(orders) < MaxRows
  /\ orders' = Append(orders, [userId |-> userId, createdAt |-> now, items |-> <<item>>])
  /\ resp' = NoResp
  /\ UNCHANGED <<now, users, products, reviews, req>>
  /\ UNCHANGED_categoryTable

AddProduct(storeId) ==
  /\ Len(products) < MaxRows
  /\ products' = Append(products, [storeId |-> storeId])
  /\ resp' = NoResp
  /\ UNCHANGED <<now, users, orders, reviews, req>>
  /\ UNCHANGED_categoryTable

AddReview(storeId, rating) ==
  /\ Len(reviews) < MaxReviews
  /\ reviews' = Append(reviews, [storeId |-> storeId, rating |-> rating])
  /\ resp' = NoResp
  /\ UNCHANGED <<now, users, orders, products, req>>
  /\ UNCHANGED_categoryTable

\* the clock moves on within the day
Tick ==
  /\ now % TicksPerDay < TicksPerDay - 1
  /\ now' = now + 1
  /\ resp' = NoResp
  /\ UNCHANGED <<users, orders, products, reviews, req>>
  /\ UNCHANGED_categoryTable

\* the clock moves to the start of a later day
Advance(days) ==
  /\ DayOf(now) + days <= MaxDay
  /\ now' = (DayOf(now) + days) * TicksPerDay
  /\ resp' = NoResp
  /\ UNCHANGED <<users, orders, products, reviews, req>>
  /\ UNCHANGED_categoryTable

DaySteps == {WindowDays, WindowDays + 1}

\* what a customer has ordered so far, as the item lists of the orders
OrderHistories ==
  LET big == [storeId |-> "s1", price |-> 10, quantity |-> 2]
      small == [storeId |-> "s1", price |-> 3, quantity |-> 1]
      other == [storeId |-> "s2", price |-> 5, quantity |-> 1]
  IN { <<>>,
       << <<other>> >>,
       << <<small>>, <<big, other>> >>,
       << <<small>>, <<other>> >> }

\* a customer registers and places their orders
Signup(history) ==
  /\ Len(users) < MaxUsers
  /\ LET id == Len(users) + 1 IN
       /\ users' = Append(users, [id |-> id, createdAt |-> id])
       /\ orders' = orders \o
            [k \in 1..Len(history) |->
               [userId |-> id, createdAt |-> now, items |-> history[k]]]
  /\ resp' = NoResp
  /\ UNCHANGED <<now, products, reviews, req>>
  /\ UNCHANGED_categoryTable

----------------------------------------------------------------------------
(* The service calls *)

GetMainStatistics(storeId) ==
  /\ resp' = [op |-> "getMainStatistics", storeId |-> storeId,
              result |-> getMainStatistics(storeId)]
  /\ UNCHANGED <<now, users, orders, products, reviews, req>>
  /\ UNCHANGED_categoryTable

GetMiddleStatistics(storeId) ==
  /\ resp' = [op |-> "getMiddleStatistics", storeId |-> storeId] @@
             getMiddleStatistics(storeId)
  /\ UNCHANGED <<now, users, orders, products, reviews, req>>
  /\ UNCHANGED_categoryTable

UNCHANGED_data == UNCHANGED <<now, users, orders, products, reviews>>

GetManyByStoreId(storeId) ==
  /\ resp' = [op |-> "getManyByStoreId", storeId |-> storeId, error |-> "none",
              result |-> getManyByStoreId(storeId)]
  /\ UNCHANGED <<categories, nextId, created, deleted, req>>
  /\ UNCHANGED_data

GetById(id) ==
  /\ resp' = [op |-> "getById", id |-> id] @@ getById(id)
  /\ UNCHANGED <<categories, nextId, created, deleted, req>>
  /\ UNCHANGED_data

Create(storeId, dto) ==
  /\ nextId <= MaxIds
  /\ LET row == Merge(createData(storeId, dto), [id |-> nextId]) IN
       /\ categories' = (nextId :> row) @@ categories
       /\ created' = (nextId :> [storeId |-> storeId, dto |-> dto]) @@ created
       /\ resp' = [op |-> "create", storeId |-> storeId, dto |-> dto,
                   error |-> "none", result |-> row]
  /\ nextId' = nextId + 1
  /\ UNCHANGED <<deleted, req>>
  /\ UNCHANGED_data

Update(id, dto) ==
  /\ LET found == getById(id)
         error == IF found.error # "none" THEN found.error ELSE mutationError(id)
     IN IF error # "none"
        THEN /\ resp' = [op |-> "update", id |-> id, dto |-> dto,
                         error |-> error, result |-> NoRow]
             /\ UNCHANGED categories
        ELSE /\ categories' = [categories EXCEPT ![id] = Merge(@, dto)]
             /\ resp' = [op |-> "update", id |-> id, dto |-> dto,
                         error |-> "none", result |-> categories'[id]]
  /\ UNCHANGED <<nextId, created, deleted, req>>
  /\ UNCHANGED_data

Delete(id) ==
  /\ LET found == getById(id)
         error == IF found.error # "none" THEN found.error ELSE mutationError(id)
     IN IF error # "none"
        THEN /\ resp' = [op |-> "delete", id |-> id, error |-> error, result |-> NoRow]
             /\ UNCHANGED <<categories, created, deleted>>
        ELSE /\ categories' = Without(categories, id)
             /\ created' = Without(created, id)
             /\ deleted' = deleted \cup {id}
             /\ resp' = [op |-> "delete", id |-> id, error |-> "none",
                         result |-> categories[id]]
  /\ UNCHANGED <<nextId, req>>
  /\ UNCHANGED_data

----------------------------------------------------------------------------
(* Concurrent update / delete requests: the existence check and the mutation
   of one request are two round trips to the store, and the other request's
   round trips may fall between them. *)

Reqs == {"r1", "r2"}

Calls ==
  {[kind |-> "delete", dto |-> NoRow]} \cup {[kind |-> "update", dto |-> d] : d \in Dtos}

IdleReq ==
  [kind |-> "idle", id |-> 0, dto |-> NoRow, pc |-> "idle",
   outcome |-> "pending", rowAtMutation |-> "unread"]

Begin(r, call, id) ==
  /\ req[r].pc = "idle"
  /\ req' = [req EXCEPT ![r] = [@ EXCEPT !.kind = call.kind, !.dto = call.dto,
                                         !.id = id, !.pc = "check"]]
  /\ UNCHANGED <<categories, nextId, created, deleted, resp>>
  /\ UNCHANGED_data

\* await this.getById(id)
Check(r) ==
  /\ req[r].pc = "check"
  /\ LET found == getById(req[r].id) IN
       req' = [req EXCEPT ![r] =
                 IF found.error # "none"
                 THEN [@ EXCEPT !.pc = "done", !.outcome = found.error]
                 ELSE [@ EXCEPT !.pc = "mutate"]]
  /\ UNCHANGED <<categories, nextId, created, deleted, resp>>
  /\ UNCHANGED_data

\* return this.prisma.category.update(...) / delete(...)
Mutate(r) ==
  /\ req[r].pc = "mutate"
  /\ LET id == req[r].id
         error == mutationError(id)
         there == IF id \in DOMAIN categories THEN "present" ELSE "absent"
     IN /\ req' = [req EXCEPT ![r] =
                     [@ EXCEPT !.pc = "done", !.rowAtMutation = there,
                               !.outcome = IF error = "none" THEN "ok" ELSE error]]
        /\ IF id \notin DOMAIN categories
           THEN UNCHANGED <<categories, created, deleted>>
           ELSE IF req[r].kind = "update"
           THEN /\ categories' = [categories EXCEPT ![id] = Merge(@, req[r].dto)]
                   /\ UNCHANGED <<created, deleted>>
           ELSE /\ categories' = Without(categories, id)
                /\ created' = Without(created, id)
                /\ deleted' = deleted \cup {id}
     /\ UNCHANGED <<nextId, resp>>
  /\ UNCHANGED_data

----------------------------------------------------------------------------
(* Specifications *)

InitData ==
  /\ now = 0
  /\ users = << [id |-> 1, createdAt |-> 1] >>
  /\ orders = <<>>
  /\ products = <<>>
  /\ reviews = <<>>

InitCategories ==
  /\ categories = <<>>
  /\ nextId = 1
  /\ created = <<>>
  /\ deleted = {}

InitCalls ==
  /\ resp = NoResp
  /\ req = [r \in Reqs |-> IdleReq]

Init == InitData /\ InitCategories /\ InitCalls

UserIds == {users[i].id : i \in 1..Len(users)}

\* the revenue of a store over orders of several items
NextRevenue ==
  \/ \E u \in UserIds, items \in ItemLists : PlaceOrder(u, items)
  \/ \E s \in QueryIds : GetMainStatistics(s)

SpecRevenue == Init /\ [][NextRevenue]_vars

\* the summary over all four tables
NextSummary ==
  \/ \E u \in UserIds, item \in Catalogue : PlaceSmallOrder(u, item)
  \/ \E s \in StoreIds : AddProduct(s)
  \/ \E s \in StoreIds, r \in Ratings : AddReview(s, r)
  \/ \E s \in StoreIds : nextId <= MaxRows /\ Create(s, [name |-> "a", slug |-> "a"])
  \/ \E s \in QueryIds : GetMainStatistics(s)

SpecSummary == Init /\ [][NextSummary]_vars

\* the orders of the trends: of the store, of another store, of both
TrendItemLists ==
  LET big == [storeId |-> "s1", price |-> 10, quantity |-> 2]
      small == [storeId |-> "s1", price |-> 3, quantity |-> 1]
      other == [storeId |-> "s2", price |-> 5, quantity |-> 1]
  IN { <<big>>, <<small>>, <<other>>, <<big, other>> }

\* the trends as orders come in and the days pass
NextTrends ==
  \/ \E u \in UserIds, items \in TrendItemLists : PlaceOrder(u, items)
  \/ Tick
  \/ \E d \in DaySteps : Advance(d)
  \/ \E s \in QueryIds : GetMiddleStatistics(s)

SpecTrends == Init /\ [][NextTrends]_vars

\* the trends as customers register
InitUsers ==
  /\ now = 0
  /\ users = <<>>
  /\ orders = <<>>
  /\ products = <<>>
  /\ reviews = <<>>
  /\ InitCategories
  /\ InitCalls

NextUsers ==
  \/ \E h \in OrderHistories : Signup(h)
  \/ \E s \in QueryIds : GetMiddleStatistics(s)

SpecUsers == InitUsers /\ [][NextUsers]_vars

\* sequential category calls
NextCategory ==
  \/ \E s \in StoreIds, dto \in Dtos : Create(s, dto)
  \/ \E s \in QueryIds : GetManyByStoreId(s)
  \/ \E id \in Ids : GetById(id)
  \/ \E id \in Ids, dto \in Dtos : Update(id, dto)
  \/ \E id \in Ids : Delete(id)

Spec == Init /\ [][NextCategory]_vars

\* two requests racing on a store that holds category 1
InitRace ==
  /\ InitData
  /\ categories = (1 :> [id |-> 1, name |-> "a", slug |-> "a", storeId |-> "s1"])
  /\ nextId = 2
  /\ created = (1 :> [storeId |-> "s1", dto |-> [name |-> "a", slug |-> "a"]])
  /\ deleted = {}
  /\ InitCalls

NextRace ==
  \/ \E r \in Reqs, call \in Calls, id \in Ids : Begin(r, call, id)
  \/ \E r \in Reqs : Check(r)
  \/ \E r \in Reqs : Mutate(r)

SpecRace == InitRace /\ [][NextRace]_vars

----------------------------------------------------------------------------
(* Claims about StatisticsService *)

\* price * quantity of the item when it is of the store, nothing otherwise
ItemValueFor(item, storeId) ==
  IF item.storeId = storeId THEN item.price * item.quantity ELSE 0

\* the store's items of one order, valued
OrderValueFor(order, storeId) ==
  SumSeq([i \in 1..Len(order.items) |-> ItemValueFor(order.items[i], storeId)])

\* the store's items over the whole order table, valued
StoreValue(storeId) ==
  SumSeq([k \in 1..Len(orders) |-> OrderValueFor(orders[k], storeId)])

IsMixed(order) ==
  \E i, j \in 1..Len(order.items) : order.items[i].storeId # order.items[j].storeId

\* C1: the Revenue metric of the summary of store S is the sum of
\* price * quantity over exactly the order items of S: the other stores'
\* items of a mixed order and the orders without an item of S add nothing.
C1_RevenueOfStoreItems ==
  resp.op = "getMainStatistics" =>
    /\ resp.result[1].name = "Revenue"
    /\ resp.result[1].value = StoreValue(resp.storeId)

\* a summary of s1 over a mixed order and an order without any item of s1
C1_Witness ==
  /\ resp.op = "getMainStatistics"
  /\ resp.storeId = "s1"
  /\ resp.result[1].value > 0
  /\ \E k \in 1..Len(orders) : IsMixed(orders[k]) /\ HasStoreItem(orders[k], "s1")
  /\ \E k \in 1..Len(orders) : ~HasStoreItem(orders[k], "s1")

StoreIsUnknown(storeId) ==
  /\ \A k \in 1..Len(orders) : ~HasStoreItem(orders[k], storeId)
  /\ \A i \in 1..Len(products) : products[i].storeId # storeId
  /\ \A i \in 1..Len(reviews) : reviews[i].storeId # storeId
  /\ \A id \in DOMAIN categories : categories[id].storeId # storeId

\* C6: the summary of any store id, known or not, is the four metrics
\* Revenue, Products, Categories, Average rating in this order; the average
\* rating is 0 when the store has no review, and all four are 0 when no
\* record matches the store id.
C6_SummaryShape ==
  resp.op = "getMainStatistics" =>
    LET r == resp.result IN
    /\ Len(r) = 4
    /\ <<r[1].name, r[2].name, r[3].name, r[4].name>> =
         <<"Revenue", "Products", "Categories", "Average rating">>
    /\ (\A i \in 1..Len(reviews) : reviews[i].storeId # resp.storeId) =>
         r[4].value = ZeroAvg
    /\ ~r[4].value.null
    /\ StoreIsUnknown(resp.storeId) =>
         /\ r[1].value = 0 /\ r[2].value = 0 /\ r[3].value = 0
         /\ r[4].value = ZeroAvg

\* a summary of a store id no record matches, over tables that all hold rows
C6_Witness ==
  /\ resp.op = "getMainStatistics"
  /\ StoreIsUnknown(resp.storeId)
  /\ orders # <<>> /\ products # <<>> /\ reviews # <<>>
  /\ DOMAIN categories # {}
  /\ resp.result[4].value = ZeroAvg

Today == DayOf(now)

\* the days of the window [start of (today - 30 days), end of today]
WindowDaySet == (Today - WindowDays)..Today

OrdersOnDay(day) ==
  LET On(order) == DayOf(order.createdAt) = day IN SelectSeq(orders, On)

\* the label formatDate gives the orders of a day
DayLabel(day) == formatDate(day * TicksPerDay)

\* the value of the store's items over the orders placed on a day
DayValue(day, storeId) ==
  LET on == OrdersOnDay(day)
  IN SumSeq([k \in 1..Len(on) |-> OrderValueFor(on[k], storeId)])

\* C2: each entry of the daily sales series of store S has the value of
\* only S's items, price * quantity, over all orders placed on that day.
C2_DailyValueOfStoreItems ==
  (resp.op = "getMiddleStatistics" /\ resp.error = "none") =>
    \A i \in 1..Len(resp.monthlySales) :
      \A day \in WindowDaySet :
        DayLabel(day) = resp.monthlySales[i].date =>
          resp.monthlySales[i].value = DayValue(day, resp.storeId)

\* the days of the window with an order that holds an item of the store
QualifyingDays(storeId) ==
  {day \in WindowDaySet :
     \E k \in 1..Len(orders) :
       DayOf(orders[k].createdAt) = day /\ HasStoreItem(orders[k], storeId)}

\* C3: the daily sales series of store S has an entry for a day if and only
\* if the day lies in the window and an order with an item of S was placed
\* on it: nothing outside the window, no entry for a day without such an
\* order, one entry a day.
C3_SparseWindow ==
  (resp.op = "getMiddleStatistics" /\ resp.error = "none") =>
    LET days == QualifyingDays(resp.storeId)
        sales == resp.monthlySales
    IN /\ {sales[i].date : i \in 1..Len(sales)} = {DayLabel(day) : day \in days}
       /\ Len(sales) = Cardinality(days)

\* a series read late on the last day that still sees an order placed early
\* on the first day of the window, with a second day beside it
C3_Witness ==
  /\ resp.op = "getMiddleStatistics"
  /\ resp.storeId = "s1"
  /\ now % TicksPerDay = TicksPerDay - 1
  /\ Len(resp.monthlySales) = 2
  /\ \E k \in 1..Len(orders) :
       /\ orders[k].createdAt = (Today - WindowDays) * TicksPerDay
       /\ HasStoreItem(orders[k], "s1")

\* the users who placed an order that holds an item of the store
QualifyingUsers(storeId) ==
  {i \in 1..Len(users) :
     \E k \in 1..Len(orders) :
       orders[k].userId = users[i].id /\ HasStoreItem(orders[k], storeId)}

\* the position in the order table of the last order of the user that holds
\* an item of the store
LastStoreOrder(userId, storeId) ==
  LET ks == {k \in 1..Len(orders) :
               orders[k].userId = userId /\ HasStoreItem(orders[k], storeId)}
  IN CHOOSE k \in ks : \A other \in ks : other <= k

Min(a, b) == IF a < b THEN a ELSE b

\* C7: the user list of the trends of store S holds at most 5 users, each
\* with an order that holds an item of S, the most recently registered of
\* them; a user's total is the value, price * quantity, of only S's items in
\* the last of the user's orders that hold an item of S.
C7_LastUsersTotals ==
  (resp.op = "getMiddleStatistics" /\ resp.error = "none") =>
    LET S == resp.storeId
        got == resp.lastUsers
        gotIds == {got[i].id : i \in 1..Len(got)}
        qual == QualifyingUsers(S)
    IN /\ Len(got) = Min(TakeUsers, Cardinality(qual))
       /\ Cardinality(gotIds) = Len(got)
       /\ gotIds \subseteq {users[i].id : i \in qual}
       /\ \A i \in qual, j \in qual :
            (users[i].id \in gotIds /\ users[j].id \notin gotIds) =>
              users[j].createdAt < users[i].createdAt
       /\ \A i \in 1..Len(got) :
            got[i].total = OrderValueFor(orders[LastStoreOrder(got[i].id, S)], S)

\* C10: every user the user query of the trends returns comes with at least
\* one included order, so the read of the last order is defined and the
\* trends never fail on a user without a qualifying order; without any order
\* the daily series and the user list are both empty.
C10_LastOrderDefined ==
  resp.op = "getMiddleStatistics" =>
    /\ resp.error = "none"
    /\ LET rows == lastUsersQuery(resp.storeId)
       IN \A k \in 1..Len(rows) : rows[k].orders # <<>>
    /\ orders = <<>> => (resp.monthlySales = <<>> /\ resp.lastUsers = <<>>)

\* trends of s1 that list a user while another user has no order at all and
\* a third has only orders of another store
C10_Witness ==
  /\ resp.op = "getMiddleStatistics"
  /\ resp.storeId = "s1"
  /\ resp.lastUsers # <<>>
  /\ \E i \in 1..Len(users) : OrdersOfUser(users[i]) = <<>>
  /\ \E i \in 1..Len(users) :
       /\ OrdersOfUser(users[i]) # <<>>
       /\ i \notin QualifyingUsers("s1")

----------------------------------------------------------------------------
(* Claims about CategoryService *)

ByIdOps == {"getById", "update", "delete"}

\* C4: getById, update and delete on an id without a category fail with
\* NotFound, and the failing call leaves the stored categories as they were.
C4_NotFoundBeforeMutation ==
  [][ (resp'.op \in ByIdOps /\ resp'.id \notin DOMAIN categories) =>
        (resp'.error = "NotFound" /\ categories' = categories) ]_vars

\* a delete that failed with NotFound on an id that was deleted before,
\* with another category in the store
C4_Witness ==
  /\ resp.op = "delete"
  /\ resp.error = "NotFound"
  /\ resp.id \in deleted
  /\ DOMAIN categories # {}

\* C5: create(S, dto) followed by getById on the created id gives a category
\* with the name and slug of the dto and the store id S, also when the dto
\* carries a storeId of its own.
C5_CreateThenGetById ==
  [][ (resp.op = "create" /\ resp'.op = "getById" /\ resp'.id = resp.result.id) =>
        /\ resp'.error = "none"
        /\ resp'.result.id = resp.result.id
        /\ resp'.result.name = resp.dto.name
        /\ resp'.result.slug = resp.dto.slug
        /\ resp'.result.storeId = resp.storeId ]_vars

\* a category read back under the store id given to create, made from a dto
\* that names another store
C5_Witness ==
  /\ resp.op = "getById"
  /\ resp.error = "none"
  /\ LET made == created[resp.id] IN
       /\ "storeId" \in DOMAIN made.dto
       /\ made.dto.storeId # made.storeId
       /\ resp.result = Merge(Merge(made.dto, [storeId |-> made.storeId]), [id |-> resp.id])

\* C8: each category goes none -> exists -> deleted: the list of store S is
\* exactly the categories created with store S and not deleted since; an
\* update of an existing category writes the dto's fields to it and changes
\* no other category; a deleted id is gone for good.
C8_Lifecycle ==
  /\ resp.op = "getManyByStoreId" =>
       {row.id : row \in resp.result} =
         {id \in DOMAIN created : created[id].storeId = resp.storeId}
  /\ (resp.op = "update" /\ resp.error = "none") =>
       \A f \in DOMAIN resp.dto : categories[resp.id][f] = resp.dto[f]
  /\ DOMAIN categories \cap deleted = {}
  /\ (resp.op \in ByIdOps /\ resp.id \in deleted /\ resp.id \notin DOMAIN categories) =>
       (resp.error = "NotFound" \/ (resp.op = "delete" /\ resp.error = "none"))

----------------------------------------------------------------------------
(* Claims about concurrent requests *)

Other(r) == CHOOSE o \in Reqs : o # r

\* two requests on category 1, which the store holds at the start, one of
\* them at least a delete
RaceOnOneCategory ==
  /\ \A r \in Reqs : req[r].kind # "idle" /\ req[r].id = 1
  /\ \E r \in Reqs : req[r].kind = "delete"

\* C9: of two concurrent requests on one existing category, update or delete
\* and one of them at least a delete, each succeeds or fails with NotFound:
\* none reaches its mutation on a row the other has removed.
C9_OnlyNotFound ==
  RaceOnOneCategory =>
    \A r \in Reqs :
      /\ req[r].outcome \in {"pending", "ok", "NotFound"}
      /\ req[r].rowAtMutation # "absent"

\* C9 as amended: each request succeeds on a row that is there at its
\* mutation, or fails with NotFound at its check, or finds at its mutation
\* that the other request's delete has removed the row since its check and
\* fails with the store's record-not-found error, which is not NotFound;
\* one request at most fails so, and one delete only succeeds.
C9_CheckThenActRace ==
  RaceOnOneCategory =>
    /\ \A r \in Reqs :
         req[r].pc = "done" =>
           \/ req[r].outcome = "ok" /\ req[r].rowAtMutation = "present"
           \/ req[r].outcome = "NotFound" /\ req[r].rowAtMutation = "unread"
           \/ /\ req[r].outcome = "RecordNotFound"
              /\ req[r].rowAtMutation = "absent"
              /\ req[Other(r)].kind = "delete"
              /\ req[Other(r)].outcome = "ok"
    /\ Cardinality({r \in Reqs : req[r].kind = "delete" /\ req[r].outcome = "ok"}) <= 1
    /\ (\E r \in Reqs : req[r].kind = "delete" /\ req[r].outcome = "ok") =>
         1 \notin DOMAIN categories

\* both requests passed the check, and the second to mutate found the row
\* removed
C9_Witness ==
  /\ RaceOnOneCategory
  /\ \E r \in Reqs :
       /\ req[r].outcome = "RecordNotFound"
       /\ req[Other(r)].outcome = "ok"

====
